---- MODULE Spec2Model ----
(***************************************************************************)
(* Fund-allocation engine of the bank payment tracker                      *)
(* (PaymentTracker in bank_payment.py) and the auxiliary-item parser       *)
(* (AuxiliaryParser in data_conversion/parser.py).                         *)
(*                                                                         *)
(* Amounts are integers counted in units of 0.01 (one cent), so the        *)
(* tolerance literal 0.01 of the source is the integer Tolerance.          *)
(* Arithmetic is exact: binary floating point rounding of the source is    *)
(* outside this model.                                                     *)
(*                                                                         *)
(* An amount text of a CSV cell is modelled as a sequence: <<>> is a text  *)
(* that clean_amount cannot read as a number (empty, blank, garbage) and   *)
(* <<n>> is a text that reads as the number n.  A dict key that may be     *)
(* absent (the keys the tracker adds to a row) is modelled the same way:   *)
(* <<>> is "key absent", <<v>> is "key present with value v".              *)
(*                                                                         *)
(* A Python str is a sequence of characters and a character is a string    *)
(* naming it: an ASCII character is itself ("h", ":", " ", "_") and any    *)
(* other character is "u" followed by its code point, so "u3010" and       *)
(* "u3011" are the full-width brackets and "uFF1A" the full-width colon.   *)
(* A text argument that may be None is <<>> for None and <<s>> for str s.  *)
(***************************************************************************)
EXTENDS Integers, Sequences, FiniteSets, TLC

\* ------------------------------------------------------------- bounds
\* most rows in the voucher group handed to process_voucher_group
MaxLegs == 4
\* largest amount (in cents) of one leg
MaxAmt == 3
\* how many times in a row process_voucher_group is called on the same rows
MaxCalls == 2
\* most rows in raw_data in a batch run
MaxRows == 4
\* most distinct voucher keys in a batch run
MaxKey == 2

\* the literal 0.01 of the source, in cents
Tolerance == 1

\* most characters of a free text handed to the parser
MaxText == 4
\* most segments (tags, broken tags, plain text) of a composed text
MaxTags == 2
\* largest max_value_length the parser is constructed with
MaxValueLength == 3
\* the default of the constructor's max_value_length
DefaultMaxValueLength == 10000

VARIABLES
    raw_data,             \* self.raw_data: the rows, with the keys the tracker adds
    outs,                 \* results of the successive process_voucher_group calls
    pc,                   \* position inside process_data
    voucher_groups,       \* process_data's voucher_groups, in insertion order
    idx,                  \* position of the for loop over voucher_groups
    all_payment_records,  \* process_data's all_payment_records
    error_count,          \* process_data's error_count
    bank_payments,        \* self.bank_payments
    ret,                  \* process_data's return value: <<>> before it returns
    text,                 \* the text handed to the parser: <<>> is None
    segments,             \* the pieces text was concatenated from
    max_value_length,     \* self.max_value_length
    items,                \* <<>>, or <<r>> once parse_auxiliary_info returned r
    format_result,        \* <<>>, or <<r>> once validate_auxiliary_format returned r
    legacy_items,         \* <<>>, or <<r>> once the legacy parse_auxiliary_info returned r
    scan                  \* the locals of a parse_auxiliary_info call that is under way

tracker_vars == <<raw_data, outs, pc, voucher_groups, idx, all_payment_records,
                  error_count, bank_payments, ret>>

parser_vars == <<text, segments, max_value_length, items, format_result,
                 legacy_items, scan>>

vars == <<tracker_vars, parser_vars>>

\* the locals of _parse_auxiliary_manual when no call is under way
ScanIdle ==
    [pc |-> "idle", s |-> <<>>, i |-> 0, start |-> 0, colon_pos |-> -1,
     item_type |-> <<>>, bracket_count |-> 0, found |-> <<>>]

\* no parser call is in progress: a parser with the default limit
ParserIdle ==
    /\ text = <<>>
    /\ segments = <<>>
    /\ max_value_length = DefaultMaxValueLength
    /\ items = <<>>
    /\ format_result = <<>>
    /\ legacy_items = <<>>
    /\ scan = ScanIdle

\* no tracker run is in progress: a tracker without data
TrackerIdle ==
    /\ raw_data = <<>>
    /\ outs = <<>>
    /\ pc = "idle"
    /\ voucher_groups = <<>>
    /\ idx = 0
    /\ all_payment_records = <<>>
    /\ error_count = 0
    /\ bank_payments = <<>>
    /\ ret = <<>>

\* ------------------------------------------------------------- helpers
Min(a, b) == IF a <= b THEN a ELSE b

Abs(a) == IF a < 0 THEN 0 - a ELSE a

RECURSIVE SumSeq(_)
SumSeq(s) == IF Len(s) = 0 THEN 0 ELSE Head(s) + SumSeq(Tail(s))

\* the amounts of a list of debit entries (fragments)
EntryAmounts(entries) == [i \in DOMAIN entries |-> entries[i].amount]

\* the amount consumed from the debit leg with entry number e over a list of records
RECURSIVE ConsumedFrom(_, _)
ConsumedFrom(e, records) ==
    IF Len(records) = 0 THEN 0
    ELSE SumSeq(EntryAmounts(SelectSeq(Head(records).debits, LAMBDA f : f.leg = e)))
         + ConsumedFrom(e, Tail(records))

\* the characters the patterns and the parser look for
LeftBracket == "u3010"
RightBracket == "u3011"
FullColon == "uFF1A"
Colon == ":"
Space == " "

\* s[i] and s[a:b] of Python, for 0 <= i < len(s) and 0 <= a, b <= len(s)
At(s, i) == s[i + 1]

Slice(s, a, b) == SubSeq(s, a + 1, b)

\* a in b, for two str
IsSubstring(a, b) == \E i \in 0..(Len(b) - Len(a)) : Slice(b, i, i + Len(a)) = a

\* where the longest run of characters other than c that starts at i ends:
\* what [^c]+ takes from position i on
RECURSIVE run_end(_, _, _)
run_end(s, i, c) == IF i < Len(s) /\ At(s, i) # c THEN run_end(s, i + 1, c) ELSE i

\* ------------------------------------------------------------- the code
\* _clean_amount: empty or unreadable text gives 0.0, a number text its value
clean_amount(amount_str) == IF Len(amount_str) = 0 THEN 0 ELSE amount_str[1]

\* value of a key the tracker has set on a row
field(f) == f[1]

\* re.search(pattern, s) for the pattern of the tag called name, a full-width
\* bracket, the name, a full-width colon, ([^close]+) and the closing
\* bracket: <<>> when nothing matches, else <<group 1>> of the leftmost
\* match.  The run is followed by a character it cannot contain, so the
\* greedy run is the only candidate at each position.
RECURSIVE search(_, _, _)
search(name, s, p) ==
    LET prefix == <<LeftBracket>> \o name \o <<FullColon>>
        from == p + Len(prefix)
        close == run_end(s, from, RightBracket)
    IN  IF from > Len(s) THEN <<>>
        ELSE IF Slice(s, p, from) = prefix /\ close > from /\ close < Len(s)
        THEN <<Slice(s, from, close)>>
        ELSE search(name, s, p + 1)

\* the tag names of the patterns
DepartmentName == <<"u90E8", "u95E8">>
PerformanceDepartmentName == <<"u7EE9", "u6548", "u90E8", "u95E8">>
CustomerName == <<"u5BA2", "u5546">>
PersonName == <<"u4EBA", "u5458", "u6863", "u6848">>

\* _extract_department: the first of the two patterns that matches decides
extract_department(auxiliary_item) ==
    IF auxiliary_item = <<>> THEN <<>>
    ELSE IF search(DepartmentName, auxiliary_item, 0) # <<>>
    THEN search(DepartmentName, auxiliary_item, 0)[1]
    ELSE IF search(PerformanceDepartmentName, auxiliary_item, 0) # <<>>
    THEN search(PerformanceDepartmentName, auxiliary_item, 0)[1]
    ELSE <<>>

\* _extract_customer
extract_customer(auxiliary_item) ==
    IF auxiliary_item = <<>> THEN <<>>
    ELSE IF search(CustomerName, auxiliary_item, 0) # <<>>
    THEN search(CustomerName, auxiliary_item, 0)[1]
    ELSE <<>>

\* _extract_person
extract_person(auxiliary_item) ==
    IF auxiliary_item = <<>> THEN <<>>
    ELSE IF search(PersonName, auxiliary_item, 0) # <<>>
    THEN search(PersonName, auxiliary_item, 0)[1]
    ELSE <<>>

\* a slip in the entry: the person is looked up with the customer pattern
create_debit_entry_person_from_customer(debit_record, amount) ==
    [leg |-> debit_record.entry,
     account |-> debit_record.account,
     amount |-> amount,
     summary |-> debit_record.summary,
     department |-> extract_department(debit_record.aux),
     customer |-> extract_customer(debit_record.aux),
     person |-> extract_customer(debit_record.aux)]

\* _create_debit_entry: an entry built from the fields of the debit record
\* it is handed, carrying the allocated amount.  leg is the entry number of
\* that record, kept to tell which leg an entry was made from; the two
\* classifier fields are left out.
create_debit_entry(debit_record, amount) ==
    [leg |-> debit_record.entry,
     account |-> debit_record.account,
     amount |-> amount,
     summary |-> debit_record.summary,
     department |-> extract_department(debit_record.aux),
     customer |-> extract_customer(debit_record.aux),
     person |-> extract_person(debit_record.aux)]

\* a slip in the classifier: the two mixed topologies are exchanged
determine_voucher_type_swapped(debit_records, credit_records) ==
    LET debit_count == Len(debit_records)
        credit_count == Len(credit_records)
    IN  IF debit_count = 1 /\ credit_count = 1 THEN "OneCreditOneDebit"
        ELSE IF debit_count = 1 /\ credit_count > 1 THEN "OneCreditMultiDebit"
        ELSE IF debit_count > 1 /\ credit_count = 1 THEN "MultiCreditOneDebit"
        ELSE IF debit_count > 1 /\ credit_count > 1 THEN "MultiCreditMultiDebit"
        ELSE "Unknown"

\* _determine_voucher_type
determine_voucher_type(debit_records, credit_records) ==
    LET debit_count == Len(debit_records)
        credit_count == Len(credit_records)
    IN  IF debit_count = 1 /\ credit_count = 1 THEN "OneCreditOneDebit"
        ELSE IF debit_count = 1 /\ credit_count > 1 THEN "MultiCreditOneDebit"
        ELSE IF debit_count > 1 /\ credit_count = 1 THEN "OneCreditMultiDebit"
        ELSE IF debit_count > 1 /\ credit_count > 1 THEN "MultiCreditMultiDebit"
        ELSE "Unknown"

\* the balance state written in a record's check information
balance_state(debit_total, credit_total) ==
    Abs(debit_total - credit_total) < Tolerance

\* the payment record dict; seq and total are <<>> when the keys are absent
payment_record(credit_record, credit_amount, debits, type, seq, total) ==
    [id |-> <<credit_record.key, credit_record.entry>>,
     voucher |-> credit_record.key,
     credit |-> [leg |-> credit_record.entry, amount |-> credit_amount],
     debits |-> debits,
     type |-> type,
     seq |-> seq,
     total |-> total,
     debit_total |-> SumSeq(EntryAmounts(debits)),
     credit_total |-> credit_amount,
     balanced |-> balance_state(SumSeq(EntryAmounts(debits)), credit_amount)]

\* a slip in the one-to-one case: the fragment is given the credit amount
process_one_credit_one_debit_credit_amount(debit_records, credit_records) ==
    LET credit_record == credit_records[1]
        debit_record == debit_records[1]
        debit_entry == create_debit_entry(debit_record, field(credit_record.credit_amount))
    IN  <<payment_record(credit_record, field(credit_record.credit_amount),
                         <<debit_entry>>, "OneCreditOneDebit", <<>>, <<>>)>>

\* _process_one_credit_one_debit
process_one_credit_one_debit(debit_records, credit_records) ==
    LET credit_record == credit_records[1]
        debit_record == debit_records[1]
        debit_entry == create_debit_entry(debit_record, field(debit_record.debit_amount))
    IN  <<payment_record(credit_record, field(credit_record.credit_amount),
                         <<debit_entry>>, "OneCreditOneDebit", <<>>, <<>>)>>

\* a slip in the one-credit loop: the last leg is treated like the others
\* and does not absorb what is left of the credit
RECURSIVE one_credit_loop_no_absorb(_, _, _, _)
one_credit_loop_no_absorb(debit_records, i, remaining_credit, allocated_debits) ==
    IF i > Len(debit_records) THEN allocated_debits
    ELSE LET debit_amount == field(debit_records[i].debit_amount)
             allocated_amount == Min(debit_amount, remaining_credit)
         IN  IF allocated_amount > 0
             THEN one_credit_loop_no_absorb(debit_records, i + 1,
                                  remaining_credit - allocated_amount,
                                  Append(allocated_debits,
                                         create_debit_entry(debit_records[i], allocated_amount)))
             ELSE one_credit_loop_no_absorb(debit_records, i + 1, remaining_credit,
                                            allocated_debits)

\* a slip in the one-credit loop: a leg other than the last is given its
\* nominal amount without regard to what is left of the credit
RECURSIVE one_credit_loop_no_min(_, _, _, _)
one_credit_loop_no_min(debit_records, i, remaining_credit, allocated_debits) ==
    IF i > Len(debit_records) THEN allocated_debits
    ELSE LET debit_amount == field(debit_records[i].debit_amount)
             allocated_amount == IF i = Len(debit_records) THEN remaining_credit
                                 ELSE debit_amount
         IN  IF allocated_amount > 0
             THEN one_credit_loop_no_min(debit_records, i + 1,
                                  remaining_credit - allocated_amount,
                                  Append(allocated_debits,
                                         create_debit_entry(debit_records[i], allocated_amount)))
             ELSE one_credit_loop_no_min(debit_records, i + 1, remaining_credit,
                                         allocated_debits)

\* _process_one_credit_multi_debit, the for loop over debit_records (i is
\* 1-based here): the state after the legs i..Len(debit_records)
RECURSIVE one_credit_loop(_, _, _, _)
one_credit_loop(debit_records, i, remaining_credit, allocated_debits) ==
    IF i > Len(debit_records) THEN allocated_debits
    ELSE LET debit_amount == field(debit_records[i].debit_amount)
             allocated_amount == IF i = Len(debit_records) THEN remaining_credit
                                 ELSE Min(debit_amount, remaining_credit)
         IN  IF allocated_amount > 0
             THEN one_credit_loop(debit_records, i + 1,
                                  remaining_credit - allocated_amount,
                                  Append(allocated_debits,
                                         create_debit_entry(debit_records[i], allocated_amount)))
             ELSE one_credit_loop(debit_records, i + 1, remaining_credit, allocated_debits)

\* _process_one_credit_multi_debit
process_one_credit_multi_debit(debit_records, credit_records) ==
    LET credit_record == credit_records[1]
        credit_amount == field(credit_record.credit_amount)
        allocated_debits == one_credit_loop(debit_records, 1, credit_amount, <<>>)
    IN  <<payment_record(credit_record, credit_amount, allocated_debits,
                         "OneCreditMultiDebit", <<>>, <<>>)>>

\* _process_multi_credit_one_debit, the for loop over credit_records
RECURSIVE one_debit_loop(_, _, _, _, _)
one_debit_loop(debit_record, credit_records, i, remaining_debit, payment_records) ==
    IF i > Len(credit_records) THEN payment_records
    ELSE LET credit_amount == field(credit_records[i].credit_amount)
             allocated_amount == IF i = Len(credit_records) THEN remaining_debit
                                 ELSE Min(credit_amount, remaining_debit)
         IN  IF allocated_amount > 0
             THEN one_debit_loop(debit_record, credit_records, i + 1,
                                 remaining_debit - allocated_amount,
                                 Append(payment_records,
                                        payment_record(credit_records[i], allocated_amount,
                                                       <<create_debit_entry(debit_record, allocated_amount)>>,
                                                       "MultiCreditOneDebit",
                                                       <<i>>, <<Len(credit_records)>>)))
             ELSE one_debit_loop(debit_record, credit_records, i + 1,
                                 remaining_debit, payment_records)

\* _process_multi_credit_one_debit
process_multi_credit_one_debit(debit_records, credit_records) ==
    LET debit_record == debit_records[1]
        debit_amount == field(debit_record.debit_amount)
    IN  one_debit_loop(debit_record, credit_records, 1, debit_amount, <<>>)

\* a slip in the pool loop: when the credit is exhausted the debit legs not
\* yet reached are kept in the pool for the next credit leg
RECURSIVE pool_loop_keeps_unreached(_, _, _, _, _)
pool_loop_keeps_unreached(remaining_debits, i, remaining_credit, allocated_debits, temp_debits) ==
    IF i > Len(remaining_debits)
    THEN [allocated_debits |-> allocated_debits, temp_debits |-> temp_debits]
    ELSE IF remaining_credit <= 0
    THEN [allocated_debits |-> allocated_debits,
          temp_debits |-> temp_debits \o SubSeq(remaining_debits, i, Len(remaining_debits))]
    ELSE LET debit_record == remaining_debits[i]
             debit_amount == field(debit_record.debit_amount)
             allocated_amount == IF i = Len(remaining_debits) THEN remaining_credit
                                 ELSE Min(debit_amount, remaining_credit)
             updated_debit == [debit_record EXCEPT
                                  !.debit_amount = <<debit_amount - allocated_amount>>]
         IN  IF allocated_amount > 0
             THEN pool_loop_keeps_unreached(remaining_debits, i + 1,
                            remaining_credit - allocated_amount,
                            Append(allocated_debits,
                                   create_debit_entry(debit_record, allocated_amount)),
                            IF field(updated_debit.debit_amount) > Tolerance
                            THEN Append(temp_debits, updated_debit)
                            ELSE temp_debits)
             ELSE pool_loop_keeps_unreached(remaining_debits, i + 1,
                            remaining_credit - allocated_amount,
                            allocated_debits, temp_debits)

\* _process_multi_credit_multi_debit, the inner for loop over remaining_debits
\* for one credit leg: gives allocated_debits and temp_debits at its end
RECURSIVE pool_loop(_, _, _, _, _)
pool_loop(remaining_debits, i, remaining_credit, allocated_debits, temp_debits) ==
    IF i > Len(remaining_debits) \/ remaining_credit <= 0
    THEN [allocated_debits |-> allocated_debits, temp_debits |-> temp_debits]
    ELSE LET debit_record == remaining_debits[i]
             debit_amount == field(debit_record.debit_amount)
             allocated_amount == IF i = Len(remaining_debits) THEN remaining_credit
                                 ELSE Min(debit_amount, remaining_credit)
             updated_debit == [debit_record EXCEPT
                                  !.debit_amount = <<debit_amount - allocated_amount>>]
         IN  IF allocated_amount > 0
             THEN pool_loop(remaining_debits, i + 1, remaining_credit - allocated_amount,
                            Append(allocated_debits,
                                   create_debit_entry(debit_record, allocated_amount)),
                            IF field(updated_debit.debit_amount) > Tolerance
                            THEN Append(temp_debits, updated_debit)
                            ELSE temp_debits)
             ELSE pool_loop(remaining_debits, i + 1, remaining_credit - allocated_amount,
                            allocated_debits, temp_debits)

\* _process_multi_credit_multi_debit, the outer for loop over credit_records:
\* payment_records at its end, and pools, the value of remaining_debits
\* after each credit leg (kept for inspection; the code keeps only the last)
RECURSIVE credit_loop(_, _, _, _, _)
credit_loop(credit_records, k, remaining_debits, payment_records, pools) ==
    IF k > Len(credit_records)
    THEN [payment_records |-> payment_records, pools |-> pools]
    ELSE LET credit_record == credit_records[k]
             credit_amount == field(credit_record.credit_amount)
             inner == pool_loop(remaining_debits, 1, credit_amount, <<>>, <<>>)
         IN  credit_loop(credit_records, k + 1, inner.temp_debits,
                         Append(payment_records,
                                payment_record(credit_record, credit_amount,
                                               inner.allocated_debits,
                                               "MultiCreditMultiDebit",
                                               <<Len(payment_records) + 1>>,
                                               <<Len(credit_records)>>)),
                         Append(pools, inner.temp_debits))

\* the sums _process_multi_credit_multi_debit compares
total_debit(debit_records) ==
    SumSeq([i \in DOMAIN debit_records |-> field(debit_records[i].debit_amount)])

total_credit(credit_records) ==
    SumSeq([i \in DOMAIN credit_records |-> field(credit_records[i].credit_amount)])

\* the outcome of a call: it returns a list of records (ok) or raises
Returned(records) == [ok |-> TRUE, records |-> records]

Raised == [ok |-> FALSE, records |-> <<>>]

\* _process_multi_credit_multi_debit
process_multi_credit_multi_debit(debit_records, credit_records) ==
    IF Abs(total_credit(credit_records) - total_debit(debit_records)) > Tolerance
    THEN Raised
    ELSE Returned(credit_loop(credit_records, 1, debit_records, <<>>, <<>>).payment_records)

\* a slip in the separating loop: the amount is added to the key when the
\* row already carries it
mark_record_accumulate(record) ==
    LET debit_amount == clean_amount(record.debit)
        credit_amount == clean_amount(record.credit)
        add(f, a) == IF Len(f) = 0 THEN <<a>> ELSE <<f[1] + a>>
    IN  IF debit_amount > 0
        THEN [record EXCEPT !.debit_amount = add(@, debit_amount)]
        ELSE IF credit_amount > 0
        THEN [record EXCEPT !.credit_amount = add(@, credit_amount)]
        ELSE record

\* _process_voucher_group, the body of the loop that separates the legs: the
\* row after the loop has looked at it (the key it adds is written to the row)
mark_record(record) ==
    LET debit_amount == clean_amount(record.debit)
        credit_amount == clean_amount(record.credit)
    IN  IF debit_amount > 0 THEN [record EXCEPT !.debit_amount = <<debit_amount>>]
        ELSE IF credit_amount > 0 THEN [record EXCEPT !.credit_amount = <<credit_amount>>]
        ELSE record

\* the rows after the separating loop
mark_records(voucher_records) ==
    [i \in DOMAIN voucher_records |-> mark_record(voucher_records[i])]

is_debit(record) == clean_amount(record.debit) > 0

is_credit(record) == ~(clean_amount(record.debit) > 0) /\ clean_amount(record.credit) > 0

\* debit_records and credit_records at the end of the separating loop
debit_records_of(voucher_records) == SelectSeq(mark_records(voucher_records), is_debit)

credit_records_of(voucher_records) == SelectSeq(mark_records(voucher_records), is_credit)

\* a slip in the dispatch: a voucher of unknown type returns an empty list
\* instead of raising
dispatch_unknown_returns(debit_records, credit_records) ==
    LET voucher_type == determine_voucher_type(debit_records, credit_records)
    IN  IF voucher_type = "OneCreditOneDebit"
        THEN Returned(process_one_credit_one_debit(debit_records, credit_records))
        ELSE IF voucher_type = "OneCreditMultiDebit"
        THEN Returned(process_one_credit_multi_debit(debit_records, credit_records))
        ELSE IF voucher_type = "MultiCreditOneDebit"
        THEN Returned(process_multi_credit_one_debit(debit_records, credit_records))
        ELSE IF voucher_type = "MultiCreditMultiDebit"
        THEN process_multi_credit_multi_debit(debit_records, credit_records)
        ELSE Returned(<<>>)

\* _process_voucher_group, the dispatch on the voucher type
dispatch(debit_records, credit_records) ==
    LET voucher_type == determine_voucher_type(debit_records, credit_records)
    IN  IF voucher_type = "OneCreditOneDebit"
        THEN Returned(process_one_credit_one_debit(debit_records, credit_records))
        ELSE IF voucher_type = "OneCreditMultiDebit"
        THEN Returned(process_one_credit_multi_debit(debit_records, credit_records))
        ELSE IF voucher_type = "MultiCreditOneDebit"
        THEN Returned(process_multi_credit_one_debit(debit_records, credit_records))
        ELSE IF voucher_type = "MultiCreditMultiDebit"
        THEN process_multi_credit_multi_debit(debit_records, credit_records)
        ELSE Raised

\* _process_voucher_group: what the call returns or that it raises
process_voucher_group(voucher_records) ==
    dispatch(debit_records_of(voucher_records), credit_records_of(voucher_records))

\* a slip in the pool: the remainder of a debit leg is written to the leg
\* itself instead of a copy, so a row ends with what the allocation left of it
rows_after_call_in_place(voucher_records) ==
    LET result == process_voucher_group(voucher_records)
        marked == mark_records(voucher_records)
        pooled == /\ result.ok
                  /\ determine_voucher_type(debit_records_of(voucher_records),
                                            credit_records_of(voucher_records))
                         = "MultiCreditMultiDebit"
    IN  [i \in DOMAIN marked |->
            IF pooled /\ is_debit(marked[i])
            THEN [marked[i] EXCEPT !.debit_amount =
                     <<field(@) - ConsumedFrom(marked[i].entry, result.records)>>]
            ELSE marked[i]]

\* _process_voucher_group, its effect on the rows it is handed: the
\* separating loop writes the amount keys to the rows themselves, and the
\* allocation works on debit_records.copy() and debit_record.copy(), so it
\* writes to no row
rows_after_call(voucher_records) == mark_records(voucher_records)

\* ------------------------------------------------------------- inputs
\* the amount texts of one CSV row: a debit leg, a credit leg, a row with no
\* amount, and a row that carries both amounts
AmountTexts ==
    {<<(<<a>>), (<<>>)>> : a \in 1..MaxAmt} \cup {<<(<<>>), (<<a>>)>> : a \in 1..MaxAmt}
    \cup {<<(<<>>), (<<>>)>>, <<(<<1>>), (<<1>>)>>}

\* the account name, summary and auxiliary text cells of the rows of a file,
\* in file order: two tags; a performance department before a department and
\* a person; an empty auxiliary text; an empty value and an unclosed tag
\* after a performance department; a padded value and a value holding an
\* opening bracket
RowDescriptions ==
    <<[account |-> <<"A", "1">>, summary |-> <<"s", "1">>,
       aux |-> <<LeftBracket>> \o DepartmentName \o <<FullColon, "x", RightBracket>>
               \o <<LeftBracket>> \o CustomerName \o <<FullColon, "y", RightBracket>>],
      [account |-> <<"A", "2">>, summary |-> <<"s", "2">>,
       aux |-> <<LeftBracket>> \o PerformanceDepartmentName \o <<FullColon, "p", RightBracket>>
               \o <<LeftBracket>> \o DepartmentName \o <<FullColon, "d", RightBracket>>
               \o <<LeftBracket>> \o PersonName \o <<FullColon, "n", RightBracket>>],
      [account |-> <<"A", "3">>, summary |-> <<>>, aux |-> <<>>],
      [account |-> <<"A", "4">>, summary |-> <<"s", "4">>,
       aux |-> <<LeftBracket>> \o PerformanceDepartmentName \o <<FullColon, "q", RightBracket>>
               \o <<LeftBracket>> \o CustomerName \o <<FullColon, RightBracket>>
               \o <<LeftBracket>> \o PersonName \o <<FullColon, "m">>],
      [account |-> <<"A", "5">>, summary |-> <<"s", " ", "5">>,
       aux |-> <<LeftBracket>> \o DepartmentName \o <<FullColon, Space, "z", Space, RightBracket>>
               \o <<LeftBracket>> \o CustomerName
               \o <<FullColon, "a", LeftBracket, "b", RightBracket, RightBracket>>]>>

\* the cells of the row with entry number entry
RowDescription(entry) == RowDescriptions[((entry - 1) % Len(RowDescriptions)) + 1]

\* a row as load_data leaves it: no key added by the tracker yet
Row(key, entry, texts) ==
    [key |-> key, entry |-> entry, debit |-> texts[1], credit |-> texts[2],
     account |-> RowDescription(entry).account,
     summary |-> RowDescription(entry).summary,
     aux |-> RowDescription(entry).aux,
     debit_amount |-> <<>>, credit_amount |-> <<>>]

\* the rows of one voucher: one key, entry numbers in file order
VoucherRows(n, t) == [i \in 1..n |-> Row(1, i, t[i])]

\* ------------------------------------------------------------- one voucher
\* a voucher group is handed to _process_voucher_group, MaxCalls times in a row
InitVoucher ==
    /\ \E n \in 1..MaxLegs : \E t \in [1..n -> AmountTexts] : raw_data = VoucherRows(n, t)
    /\ outs = <<>>
    /\ pc = "idle"
    /\ voucher_groups = <<>>
    /\ idx = 0
    /\ all_payment_records = <<>>
    /\ error_count = 0
    /\ bank_payments = <<>>
    /\ ret = <<>>
    /\ ParserIdle

CallProcessVoucherGroup ==
    /\ Len(outs) < MaxCalls
    /\ outs' = Append(outs, process_voucher_group(raw_data))
    /\ raw_data' = rows_after_call(raw_data)
    /\ UNCHANGED <<pc, voucher_groups, idx, all_payment_records, error_count,
                   bank_payments, ret>>
    /\ UNCHANGED parser_vars

NextVoucher == CallProcessVoucherGroup

SpecVoucher == InitVoucher /\ [][NextVoucher]_vars

\* ------------------------------------------------------------- the batch
\* process_data, the grouping loop: voucher_groups is a dict, which keeps its
\* keys in insertion order; a group holds the positions in raw_data of its
\* rows, since the lists of the dict hold the row objects of raw_data itself
RECURSIVE group_loop(_, _, _)
group_loop(rows, i, groups) ==
    IF i > Len(rows) THEN groups
    ELSE LET key == rows[i].key
             known == \E g \in DOMAIN groups : groups[g].key = key
             with_key == IF known THEN groups
                         ELSE Append(groups, [key |-> key, rows |-> <<>>])
         IN  group_loop(rows, i + 1,
                        [g \in DOMAIN with_key |->
                            IF with_key[g].key = key
                            THEN [with_key[g] EXCEPT !.rows = Append(@, i)]
                            ELSE with_key[g]])

\* the rows of a group, as the list handed to _process_voucher_group
group_records(rows, group) == [j \in DOMAIN group.rows |-> rows[group.rows[j]]]

\* a slip in the except branch: the records collected so far are dropped
\* when a voucher group fails
loop_body_reset(all, errors, voucher_records) ==
    LET result == process_voucher_group(voucher_records)
    IN  IF result.ok
        THEN [all |-> all \o result.records, errors |-> errors]
        ELSE [all |-> <<>>, errors |-> errors + 1]

\* a slip in the try branch: the records of a group are put before the
\* records collected so far
loop_body_prepend(all, errors, voucher_records) ==
    LET result == process_voucher_group(voucher_records)
    IN  IF result.ok
        THEN [all |-> result.records \o all, errors |-> errors]
        ELSE [all |-> all, errors |-> errors + 1]

\* process_data, the body of the loop over voucher_groups with its
\* try/except: all_payment_records and error_count after one group
loop_body(all, errors, voucher_records) ==
    LET result == process_voucher_group(voucher_records)
    IN  IF result.ok
        THEN [all |-> all \o result.records, errors |-> errors]
        ELSE [all |-> all, errors |-> errors + 1]

\* the amount texts of the rows of a batch: two debit legs, a credit leg and
\* a row with no amount
BatchTexts ==
    {<<(<<1>>), (<<>>)>>, <<(<<2>>), (<<>>)>>, <<(<<>>), (<<1>>)>>, <<(<<>>), (<<>>)>>}

\* raw_data as load_data leaves it: entry numbers in file order, each row
\* of one of the vouchers k
BatchRows(n, k, t) == [i \in 1..n |-> Row(k[i], i, t[i])]

Init ==
    /\ \E n \in 0..MaxRows : \E k \in [1..n -> 1..MaxKey], t \in [1..n -> BatchTexts] :
          raw_data = BatchRows(n, k, t)
    /\ outs = <<>>
    /\ pc = "start"
    /\ voucher_groups = <<>>
    /\ idx = 0
    /\ all_payment_records = <<>>
    /\ error_count = 0
    /\ bank_payments = <<>>
    /\ ret = <<>>
    /\ ParserIdle

\* process_data up to the loop over the groups: no data returns False
GroupVouchers ==
    /\ pc = "start"
    /\ IF Len(raw_data) = 0
       THEN /\ pc' = "done"
            /\ ret' = <<FALSE>>
            /\ UNCHANGED <<voucher_groups, idx>>
       ELSE /\ pc' = "loop"
            /\ voucher_groups' = group_loop(raw_data, 1, <<>>)
            /\ idx' = 1
            /\ UNCHANGED ret
    /\ UNCHANGED <<raw_data, outs, all_payment_records, error_count, bank_payments>>
    /\ UNCHANGED parser_vars

\* one iteration of the loop over voucher_groups
ProcessGroup ==
    /\ pc = "loop"
    /\ idx <= Len(voucher_groups)
    /\ LET group == voucher_groups[idx]
           voucher_records == group_records(raw_data, group)
           after == loop_body(all_payment_records, error_count, voucher_records)
       IN  /\ all_payment_records' = after.all
           /\ error_count' = after.errors
           /\ raw_data' = [i \in DOMAIN raw_data |->
                              IF \E j \in DOMAIN group.rows : group.rows[j] = i
                              THEN rows_after_call(voucher_records)[
                                       CHOOSE j \in DOMAIN group.rows : group.rows[j] = i]
                              ELSE raw_data[i]]
    /\ idx' = idx + 1
    /\ UNCHANGED <<outs, pc, voucher_groups, bank_payments, ret>>
    /\ UNCHANGED parser_vars

\* process_data after the loop
Finish ==
    /\ pc = "loop"
    /\ idx > Len(voucher_groups)
    /\ bank_payments' = all_payment_records
    /\ ret' = <<Len(all_payment_records) > 0>>
    /\ pc' = "done"
    /\ UNCHANGED <<raw_data, outs, voucher_groups, idx, all_payment_records, error_count>>
    /\ UNCHANGED parser_vars

Next == GroupVouchers \/ ProcessGroup \/ Finish

Spec == Init /\ [][Next]_vars

\* ------------------------------------------------------------- properties
\* the legs of the voucher in raw_data as the input states them: a row is a
\* debit leg when its debit text reads as a positive amount, else a credit
\* leg when its credit text does, else it is discarded
InputDebitLegs == SelectSeq(raw_data, is_debit)

InputCreditLegs == SelectSeq(raw_data, is_credit)

InputDebitAmounts == [i \in DOMAIN InputDebitLegs |-> clean_amount(InputDebitLegs[i].debit)]

InputCreditAmounts == [i \in DOMAIN InputCreditLegs |-> clean_amount(InputCreditLegs[i].credit)]

InputDebitTotal == SumSeq(InputDebitAmounts)

InputCreditTotal == SumSeq(InputCreditAmounts)

NumDebit == Len(InputDebitLegs)

NumCredit == Len(InputCreditLegs)

\* the leg and the amount of each of a list of debit entries
LegAmounts(entries) ==
    [i \in DOMAIN entries |-> [leg |-> entries[i].leg, amount |-> entries[i].amount]]

\* the sum of the debit-fragment amounts over a list of payment records
FragmentTotal(records) ==
    SumSeq([i \in DOMAIN records |-> SumSeq(EntryAmounts(records[i].debits))])

\* C1: every voucher group processed without failure, whatever its topology,
\* has fragment amounts that sum to the voucher's original credit total
\* within the tolerance.
C1_RoundTripBalance ==
    \A c \in DOMAIN outs :
        outs[c].ok =>
            Abs(FragmentTotal(outs[c].records) - InputCreditTotal) <= Tolerance

\* C2: a voucher of any topology whose debit and credit totals differ by
\* more than the tolerance is rejected and yields no payment record.
C2_UnbalancedRejected ==
    \A c \in DOMAIN outs :
        (NumDebit >= 1 /\ NumCredit >= 1
            /\ Abs(InputDebitTotal - InputCreditTotal) > Tolerance)
        => (~outs[c].ok /\ outs[c].records = <<>>)

\* C3: in a many-credit/many-debit voucher with equal totals, each debit leg
\* is consumed, over all records, by exactly its original amount.
C3_DebitLegConservation ==
    \A c \in DOMAIN outs :
        (NumDebit >= 2 /\ NumCredit >= 2 /\ InputDebitTotal = InputCreditTotal)
        => (outs[c].ok
            /\ \A d \in DOMAIN InputDebitLegs :
                   ConsumedFrom(InputDebitLegs[d].entry, outs[c].records)
                       = InputDebitAmounts[d])

LegPosition(e) == CHOOSE d \in DOMAIN InputDebitLegs : InputDebitLegs[d].entry = e

\* the sum of the first p - 1 fragment amounts of a fragment list
Before(frags, p) == SumSeq(EntryAmounts(SubSeq(frags, 1, p - 1)))

C6_OneToOne ==
    \A c \in DOMAIN outs :
        (NumCredit = 1 /\ NumDebit = 1)
        => /\ outs[c].ok
           /\ Len(outs[c].records) = 1
           /\ LegAmounts(outs[c].records[1].debits) =
                  <<[leg |-> InputDebitLegs[1].entry, amount |-> InputDebitAmounts[1]]>>
           /\ outs[c].records[1].credit =
                  [leg |-> InputCreditLegs[1].entry, amount |-> InputCreditAmounts[1]]
           /\ (InputDebitAmounts[1] = InputCreditAmounts[1] => outs[c].records[1].balanced)

\* a one-to-one voucher with equal amounts has produced its balanced record
C6_Witness ==
    /\ Len(outs) >= 1
    /\ NumCredit = 1 /\ NumDebit = 1
    /\ InputDebitAmounts[1] = InputCreditAmounts[1]
    /\ Len(outs[1].records) = 1
    /\ outs[1].records[1].balanced

\* C7: a voucher with one debit leg and n >= 2 credit legs whose totals
\* balance within the tolerance yields exactly n records, the k-th for the
\* k-th credit leg, with sequence index k and total n.
C7_OneRecordPerCreditLeg ==
    \A c \in DOMAIN outs :
        (NumDebit = 1 /\ NumCredit >= 2
            /\ Abs(InputDebitTotal - InputCreditTotal) <= Tolerance)
        => /\ outs[c].ok
           /\ Len(outs[c].records) = NumCredit
           /\ \A k \in DOMAIN outs[c].records :
                  /\ outs[c].records[k].credit.leg = InputCreditLegs[k].entry
                  /\ outs[c].records[k].seq = <<k>>
                  /\ outs[c].records[k].total = <<NumCredit>>

\* C10: calling _process_voucher_group again on the same rows gives the same
\* outcome as the first call.
C10_Idempotent == \A c \in DOMAIN outs : outs[c] = outs[1]

\* a many-credit/many-debit voucher has been processed twice, a debit leg
\* having been split between two records
C10_Witness ==
    /\ Len(outs) >= 2
    /\ NumDebit >= 2 /\ NumCredit >= 2
    /\ outs[2].ok
    /\ \E d \in DOMAIN InputDebitLegs :
           /\ ConsumedFrom(InputDebitLegs[d].entry, <<outs[2].records[1]>>) > 0
           /\ ConsumedFrom(InputDebitLegs[d].entry, <<outs[2].records[2]>>) > 0

\* ---- the batch run
\* a row as it was loaded, without the keys the tracker adds
Pristine(record) == [record EXCEPT !.debit_amount = <<>>, !.credit_amount = <<>>]

\* the rows of group g of voucher_groups as they were loaded
LoadedGroup(g) ==
    [j \in DOMAIN voucher_groups[g].rows |-> Pristine(raw_data[voucher_groups[g].rows[j]])]

\* group g has no legal topology: no debit leg or no credit leg
InvalidGroup(g) ==
    Len(SelectSeq(LoadedGroup(g), is_debit)) = 0 \/ Len(SelectSeq(LoadedGroup(g), is_credit)) = 0

\* group g fails: it is invalid, or it is a many-credit/many-debit voucher
\* whose totals differ by more than the tolerance
FailingGroup(g) ==
    LET debits == SelectSeq(LoadedGroup(g), is_debit)
        credits == SelectSeq(LoadedGroup(g), is_credit)
    IN  \/ InvalidGroup(g)
        \/ /\ Len(debits) >= 2 /\ Len(credits) >= 2
           /\ Abs(SumSeq([i \in DOMAIN debits |-> clean_amount(debits[i].debit)])
                  - SumSeq([i \in DOMAIN credits |-> clean_amount(credits[i].credit)]))
              > Tolerance

\* the groups the loop has gone through
Processed == IF pc = "start" THEN {} ELSE 1..(idx - 1)

\* C8: a voucher group with no debit leg or no credit leg yields no payment
\* record and is counted as one failed voucher: the error count is the
\* number of failing groups gone through.
C8_InvalidTopologyFails ==
    /\ \A g \in Processed :
           InvalidGroup(g) =>
               \A r \in DOMAIN all_payment_records :
                   all_payment_records[r].voucher # voucher_groups[g].key
    /\ error_count = Cardinality({g \in Processed : FailingGroup(g)})

\* a batch with an invalid group and a group that gave a record has ended
C8_Witness ==
    /\ pc = "done"
    /\ \E g \in Processed : InvalidGroup(g)
    /\ error_count >= 1
    /\ Len(bank_payments) >= 1

\* the records of the groups first..Len(voucher_groups) other than the
\* failing ones, each group processed on its own
RECURSIVE RecordsWithoutFailing(_)
RecordsWithoutFailing(first) ==
    IF first > Len(voucher_groups) THEN <<>>
    ELSE (IF FailingGroup(first) THEN <<>>
          ELSE process_voucher_group(LoadedGroup(first)).records)
         \o RecordsWithoutFailing(first + 1)

\* C9: when the batch has ended every group has been gone through, a failing
\* group has no record in the output, and the output is the records each
\* other group gives on its own, in group order, as if the failing groups
\* were not in the batch.
C9_PartialFailureIsolation ==
    (pc = "done" /\ Len(raw_data) > 0)
    => /\ idx = Len(voucher_groups) + 1
       /\ \A g \in DOMAIN voucher_groups :
              FailingGroup(g) =>
                  \A r \in DOMAIN bank_payments :
                      bank_payments[r].voucher # voucher_groups[g].key
       /\ bank_payments = RecordsWithoutFailing(1)

\* a batch has ended in which a failing group came before a group that gave
\* a record
C9_Witness ==
    /\ pc = "done"
    /\ \E f, g \in DOMAIN voucher_groups :
           /\ f < g
           /\ FailingGroup(f)
           /\ ~FailingGroup(g)
           /\ \E r \in DOMAIN bank_payments : bank_payments[r].voucher = voucher_groups[g].key

\* ---- classification and the check information of a record
\* the topology the leg counts of the voucher in raw_data call for
ExpectedTopology ==
    IF NumDebit = 0 \/ NumCredit = 0 THEN "Unknown"
    ELSE IF NumDebit = 1 /\ NumCredit = 1 THEN "OneCreditOneDebit"
    ELSE IF NumCredit = 1 THEN "OneCreditMultiDebit"
    ELSE IF NumDebit = 1 THEN "MultiCreditOneDebit"
    ELSE "MultiCreditMultiDebit"

\* C11: the classifier gives the topology the counts of debit and credit
\* legs call for, the unknown one exactly when a side has no leg; the
\* records of a call carry that topology, and an unknown one gives no record.
C11_TopologyClassification ==
    /\ determine_voucher_type(debit_records_of(raw_data), credit_records_of(raw_data))
          = ExpectedTopology
    /\ \A c \in DOMAIN outs :
           /\ \A r \in DOMAIN outs[c].records : outs[c].records[r].type = ExpectedTopology
           /\ ExpectedTopology = "Unknown" => ~outs[c].ok
           /\ (ExpectedTopology # "Unknown" /\ ExpectedTopology # "MultiCreditMultiDebit")
              => outs[c].ok

\* a voucher with one debit leg and several credit legs has been processed
\* and its records carry the many-credit/one-debit topology
C11_Witness ==
    /\ Len(outs) >= 1
    /\ NumDebit = 1 /\ NumCredit >= 2
    /\ Len(outs[1].records) >= 2
    /\ outs[1].records[1].type = "MultiCreditOneDebit"

\* C12: a record is marked balanced exactly when the sum of its fragment
\* amounts and its credit amount differ by at most the tolerance, a
\* difference equal to the tolerance included.
C12_BalanceFlagWithinTolerance ==
    \A c \in DOMAIN outs :
        \A r \in DOMAIN outs[c].records :
            outs[c].records[r].balanced
            <=> Abs(SumSeq(EntryAmounts(outs[c].records[r].debits))
                    - outs[c].records[r].credit.amount) <= Tolerance

\* C13: the credit amounts written in the records of a voucher processed
\* without failure sum to the voucher's original credit total within the
\* tolerance.
C13_CreditTotalPreserved ==
    \A c \in DOMAIN outs :
        outs[c].ok =>
            Abs(SumSeq([r \in DOMAIN outs[c].records |-> outs[c].records[r].credit.amount])
                - InputCreditTotal) <= Tolerance

\* ------------------------------------------------------------- the parser
\* s.count(c), for a character c
Count(s, c) == Cardinality({p \in DOMAIN s : s[p] = c})

\* str.strip(): the space is the whitespace of the texts considered
RECURSIVE lstrip(_)
lstrip(s) == IF s # <<>> /\ Head(s) = Space THEN lstrip(Tail(s)) ELSE s

RECURSIVE rstrip(_)
rstrip(s) == IF s # <<>> /\ s[Len(s)] = Space THEN rstrip(SubSeq(s, 1, Len(s) - 1)) ELSE s

strip(s) == rstrip(lstrip(s))

\* str.lower(), one character at a time: the ASCII letters change
UpperLetters ==
    <<"A", "B", "C", "D", "E", "F", "G", "H", "I", "J", "K", "L", "M",
      "N", "O", "P", "Q", "R", "S", "T", "U", "V", "W", "X", "Y", "Z">>

LowerLetters ==
    <<"a", "b", "c", "d", "e", "f", "g", "h", "i", "j", "k", "l", "m",
      "n", "o", "p", "q", "r", "s", "t", "u", "v", "w", "x", "y", "z">>

lower_char(c) ==
    IF \E j \in DOMAIN UpperLetters : UpperLetters[j] = c
    THEN LowerLetters[CHOOSE j \in DOMAIN UpperLetters : UpperLetters[j] = c]
    ELSE c

\* self.type_mapping, in the insertion order of the dict
type_mapping == <<
    \* line 26: supplier_customer
    [key |-> <<"u5BA2", "u5546">>,
     value |-> <<"s", "u", "p", "p", "l", "i", "e", "r", "_", "c", "u", "s", "t", "o", "m", "e", "r">>],
    \* line 27: supplier
    [key |-> <<"u4F9B", "u5E94", "u5546">>,
     value |-> <<"s", "u", "p", "p", "l", "i", "e", "r">>],
    \* line 28: customer
    [key |-> <<"u5BA2", "u6237">>,
     value |-> <<"c", "u", "s", "t", "o", "m", "e", "r">>],
    \* line 29: project
    [key |-> <<"u9879", "u76EE">>,
     value |-> <<"p", "r", "o", "j", "e", "c", "t">>],
    \* line 30: department
    [key |-> <<"u90E8", "u95E8">>,
     value |-> <<"d", "e", "p", "a", "r", "t", "m", "e", "n", "t">>],
    \* line 31: bank_account
    [key |-> <<"u94F6", "u884C", "u8D26", "u6237">>,
     value |-> <<"b", "a", "n", "k", "_", "a", "c", "c", "o", "u", "n", "t">>],
    \* line 32: employee
    [key |-> <<"u4EBA", "u5458", "u6863", "u6848">>,
     value |-> <<"e", "m", "p", "l", "o", "y", "e", "e">>],
    \* line 33: employee
    [key |-> <<"u5458", "u5DE5">>,
     value |-> <<"e", "m", "p", "l", "o", "y", "e", "e">>],
    \* line 34: employee
    [key |-> <<"u4EBA", "u5458">>,
     value |-> <<"e", "m", "p", "l", "o", "y", "e", "e">>],
    \* line 35: payment_item
    [key |-> <<"u6B3E", "u9879", "u540D", "u79F0">>,
     value |-> <<"p", "a", "y", "m", "e", "n", "t", "_", "i", "t", "e", "m">>],
    \* line 36: performance_dept
    [key |-> <<"u7EE9", "u6548", "u90E8", "u95E8">>,
     value |-> <<"p", "e", "r", "f", "o", "r", "m", "a", "n", "c", "e", "_", "d", "e", "p", "t">>],
    \* line 37: performance_dept_hl
    [key |-> <<"u7EE9", "u6548", "u90E8", "u95E8", "h", "l">>,
     value |-> <<"p", "e", "r", "f", "o", "r", "m", "a", "n", "c", "e", "_", "d", "e", "p", "t", "_", "h", "l">>],
    \* line 38: business_partner
    [key |-> <<"u5F80", "u6765", "u5355", "u4F4D">>,
     value |-> <<"b", "u", "s", "i", "n", "e", "s", "s", "_", "p", "a", "r", "t", "n", "e", "r">>],
    \* line 39: unit
    [key |-> <<"u5355", "u4F4D">>,
     value |-> <<"u", "n", "i", "t">>],
    \* line 40: settlement_method
    [key |-> <<"u7ED3", "u7B97", "u65B9", "u5F0F">>,
     value |-> <<"s", "e", "t", "t", "l", "e", "m", "e", "n", "t", "_", "m", "e", "t", "h", "o", "d">>],
    \* line 41: cash_flow_item
    [key |-> <<"u73B0", "u91D1", "u6D41", "u91CF", "u9879", "u76EE">>,
     value |-> <<"c", "a", "s", "h", "_", "f", "l", "o", "w", "_", "i", "t", "e", "m">>],
    \* line 42: salesman
    [key |-> <<"u4E1A", "u52A1", "u5458">>,
     value |-> <<"s", "a", "l", "e", "s", "m", "a", "n">>],
    \* line 43: inventory
    [key |-> <<"u5B58", "u8D27">>,
     value |-> <<"i", "n", "v", "e", "n", "t", "o", "r", "y">>],
    \* line 44: custom_item
    [key |-> <<"u81EA", "u5B9A", "u4E49", "u9879">>,
     value |-> <<"c", "u", "s", "t", "o", "m", "_", "i", "t", "e", "m">>],
    \* line 46: external_flow_number
    [key |-> <<"u6258", "u5916", "u6D41", "u6C34", "u53F7">>,
     value |-> <<"e", "x", "t", "e", "r", "n", "a", "l", "_", "f", "l", "o", "w", "_", "n", "u", "m", "b", "e", "r">>],
    \* line 47: external_flow_number
    [key |-> <<"u5916", "u90E8", "u6D41", "u6C34", "u53F7">>,
     value |-> <<"e", "x", "t", "e", "r", "n", "a", "l", "_", "f", "l", "o", "w", "_", "n", "u", "m", "b", "e", "r">>],
    \* line 48: flow_number
    [key |-> <<"u6D41", "u6C34", "u53F7">>,
     value |-> <<"f", "l", "o", "w", "_", "n", "u", "m", "b", "e", "r">>],
    \* line 49: business_category
    [key |-> <<"u4E1A", "u52A1", "u7C7B", "u522B">>,
     value |-> <<"b", "u", "s", "i", "n", "e", "s", "s", "_", "c", "a", "t", "e", "g", "o", "r", "y">>],
    \* line 50: property_address
    [key |-> <<"u7269", "u4E1A", "u5730", "u5740">>,
     value |-> <<"p", "r", "o", "p", "e", "r", "t", "y", "_", "a", "d", "d", "r", "e", "s", "s">>],
    \* line 51: bank_archive
    [key |-> <<"u94F6", "u884C", "u6863", "u6848">>,
     value |-> <<"b", "a", "n", "k", "_", "a", "r", "c", "h", "i", "v", "e">>],
    \* line 52: contract_number
    [key |-> <<"u5408", "u540C", "u7F16", "u53F7">>,
     value |-> <<"c", "o", "n", "t", "r", "a", "c", "t", "_", "n", "u", "m", "b", "e", "r">>],
    \* line 53: invoice_number
    [key |-> <<"u53D1", "u7968", "u53F7", "u7801">>,
     value |-> <<"i", "n", "v", "o", "i", "c", "e", "_", "n", "u", "m", "b", "e", "r">>],
    \* line 54: receiving_unit
    [key |-> <<"u6536", "u6B3E", "u5355", "u4F4D">>,
     value |-> <<"r", "e", "c", "e", "i", "v", "i", "n", "g", "_", "u", "n", "i", "t">>],
    \* line 55: paying_unit
    [key |-> <<"u4ED8", "u6B3E", "u5355", "u4F4D">>,
     value |-> <<"p", "a", "y", "i", "n", "g", "_", "u", "n", "i", "t">>],
    \* line 56: construction_number
    [key |-> <<"u65BD", "u5DE5", "u7F16", "u53F7">>,
     value |-> <<"c", "o", "n", "s", "t", "r", "u", "c", "t", "i", "o", "n", "_", "n", "u", "m", "b", "e", "r">>],
    \* line 57: project_number
    [key |-> <<"u9879", "u76EE", "u7F16", "u53F7">>,
     value |-> <<"p", "r", "o", "j", "e", "c", "t", "_", "n", "u", "m", "b", "e", "r">>],
    \* line 58: archive_number
    [key |-> <<"u6863", "u6848", "u7F16", "u53F7">>,
     value |-> <<"a", "r", "c", "h", "i", "v", "e", "_", "n", "u", "m", "b", "e", "r">>]
>>

\* the least element of a non-empty set of positions
First(hits) == CHOOSE j \in hits : \A h \in hits : j <= h

\* self.reverse_mapping.get(standardized_type, default): the first key of
\* type_mapping that maps to the value
reverse_mapping_get(standardized_type, default) ==
    LET hits == {j \in DOMAIN type_mapping : type_mapping[j].value = standardized_type}
    IN  IF hits = {} THEN default ELSE type_mapping[First(hits)].key

\* raw_type in self.type_mapping: <<>> on a miss, <<value>> on a hit
exact_match(raw_type) ==
    LET hits == {j \in DOMAIN type_mapping : type_mapping[j].key = raw_type}
    IN  IF hits = {} THEN <<>> ELSE <<type_mapping[First(hits)].value>>

\* the loop over type_mapping.items(): the first key that is inside
\* raw_type or has raw_type inside it
fuzzy_match(raw_type) ==
    LET hits == {j \in DOMAIN type_mapping :
                    \/ IsSubstring(type_mapping[j].key, raw_type)
                    \/ IsSubstring(raw_type, type_mapping[j].key)}
    IN  IF hits = {} THEN <<>> ELSE <<type_mapping[First(hits)].value>>

\* raw_type.lower() without the replacement of the spaces
fallback_type_keep_spaces(raw_type) ==
    [p \in DOMAIN raw_type |-> lower_char(raw_type[p])]

\* raw_type.lower().replace(' ', '_')
fallback_type(raw_type) ==
    [p \in DOMAIN raw_type |->
        IF lower_char(raw_type[p]) = Space THEN "_" ELSE lower_char(raw_type[p])]

\* _standardize_type without its exact lookup
standardize_type_fuzzy_first(raw_type) ==
    IF fuzzy_match(raw_type) # <<>> THEN fuzzy_match(raw_type)[1]
    ELSE fallback_type(raw_type)

standardize_type(raw_type) ==
    IF exact_match(raw_type) # <<>> THEN exact_match(raw_type)[1]
    ELSE IF fuzzy_match(raw_type) # <<>> THEN fuzzy_match(raw_type)[1]
    ELSE fallback_type(raw_type)

special_chars == {LeftBracket, RightBracket, Colon, FullColon}

\* a search that gives up at once: no character before the cut is valid
last_valid_loop_gives_up(truncated_value, last_valid_index) == -1

\* the while loop that walks last_valid_index back over special characters
RECURSIVE last_valid_loop(_, _)
last_valid_loop(truncated_value, last_valid_index) ==
    IF last_valid_index >= 0 /\ At(truncated_value, last_valid_index) \in special_chars
    THEN last_valid_loop(truncated_value, last_valid_index - 1)
    ELSE last_valid_index

\* the last n characters of s, s[-n:]
LastChars(s, n) == IF Len(s) <= n THEN s ELSE SubSeq(s, Len(s) - n + 1, Len(s))

\* a cut that returns nothing when it finds only special characters
truncate_value_empty_last_resort(value, item_type) ==
    LET cut == Slice(value, 0, max_value_length)
        truncated_value ==
            IF cut # <<>> /\ cut[Len(cut)] \in special_chars
            THEN Slice(cut, 0, last_valid_loop(cut, Len(cut) - 2) + 1)
            ELSE cut
    IN  [value |-> truncated_value,
         was_truncated |-> TRUE,
         warning_msg |-> <<[item_type |-> item_type,
                            original_length |-> Len(value),
                            truncated_length |-> Len(truncated_value),
                            content |-> LastChars(truncated_value, 50)]>>]

\* the part of _validate_and_truncate_value that cuts a value that is too
\* long; the warning message is the record of what it is formatted from
truncate_value(value, item_type) ==
    LET cut == Slice(value, 0, max_value_length)
        truncated_value ==
            IF cut # <<>> /\ cut[Len(cut)] \in special_chars
            THEN LET last_valid_index == last_valid_loop(cut, Len(cut) - 2)
                 IN  IF last_valid_index >= 0
                     THEN Slice(cut, 0, last_valid_index + 1)
                     ELSE cut
            ELSE cut
    IN  [value |-> truncated_value,
         was_truncated |-> TRUE,
         warning_msg |-> <<[item_type |-> item_type,
                            original_length |-> Len(value),
                            truncated_length |-> Len(truncated_value),
                            content |-> LastChars(truncated_value, 50)]>>]

\* a length test that also cuts a value of exactly max_value_length
validate_and_truncate_value_strict(value, item_type) ==
    IF value = <<>> \/ Len(value) < max_value_length
    THEN [value |-> value, was_truncated |-> FALSE, warning_msg |-> <<>>]
    ELSE truncate_value(value, item_type)

\* max_value_length is not negative in the parsers considered
validate_and_truncate_value(value, item_type) ==
    IF value = <<>>
    THEN [value |-> value, was_truncated |-> FALSE, warning_msg |-> <<>>]
    ELSE IF Len(value) <= max_value_length
    THEN [value |-> value, was_truncated |-> FALSE, warning_msg |-> <<>>]
    ELSE truncate_value(value, item_type)

\* item_data of _parse_auxiliary_manual; value_warning is a key that may be absent
item_data(item_type, item_value) ==
    LET standardized_type == standardize_type(item_type)
        validated == validate_and_truncate_value(item_value, standardized_type)
    IN  [raw_type |-> item_type,
         item_type |-> standardized_type,
         item_value |-> validated.value,
         display_type |-> reverse_mapping_get(standardized_type, item_type),
         value_warning |-> IF validated.was_truncated THEN validated.warning_msg ELSE <<>>]

\* the inner loop that looks for the full-width colon
RECURSIVE colon_loop(_, _)
colon_loop(s, i) ==
    IF i < Len(s)
    THEN IF At(s, i) = FullColon
         THEN [colon_pos |-> i, i |-> i + 1]
         ELSE colon_loop(s, i + 1)
    ELSE [colon_pos |-> -1, i |-> i]

\* a search for the closing bracket that does not count the opening ones
RECURSIVE bracket_loop_flat(_, _, _)
bracket_loop_flat(s, i, bracket_count) ==
    IF i < Len(s) /\ bracket_count > 0
    THEN bracket_loop_flat(s, i + 1,
             IF At(s, i) = RightBracket THEN bracket_count - 1 ELSE bracket_count)
    ELSE [i |-> i, bracket_count |-> bracket_count]

\* the inner loop that looks for the matching closing bracket
RECURSIVE bracket_loop(_, _, _)
bracket_loop(s, i, bracket_count) ==
    IF i < Len(s) /\ bracket_count > 0
    THEN bracket_loop(s, i + 1,
             IF At(s, i) = LeftBracket THEN bracket_count + 1
             ELSE IF At(s, i) = RightBracket THEN bracket_count - 1
             ELSE bracket_count)
    ELSE [i |-> i, bracket_count |-> bracket_count]

\* the outer loop of _parse_auxiliary_manual, from position i on
RECURSIVE manual_loop(_, _, _)
manual_loop(s, i, found) ==
    IF i >= Len(s) THEN found
    ELSE IF At(s, i) = LeftBracket
    THEN LET start == i
             colon == colon_loop(s, i + 1)
         IN  IF colon.colon_pos = -1 THEN found
             ELSE LET item_type == strip(Slice(s, start + 1, colon.colon_pos))
                      value_start == colon.colon_pos + 1
                      close == bracket_loop(s, colon.i, 1)
                  IN  IF close.bracket_count = 0
                      THEN LET item_value == strip(Slice(s, value_start, close.i - 1))
                           IN  manual_loop(s, close.i,
                                           Append(found, item_data(item_type, item_value)))
                      ELSE found
    ELSE manual_loop(s, i + 1, found)

parse_auxiliary_manual(s) == manual_loop(s, 0, <<>>)

\* parse_auxiliary_info(text), text being None (<<>>) or a str
parse_auxiliary_info(t) ==
    IF t = <<>> \/ t[1] = <<>> \/ strip(t[1]) = <<>>
    THEN <<>>
    ELSE parse_auxiliary_manual(strip(t[1]))

\* a check that compares the two bracket counts only and not the number of
\* items with the number of opening brackets
validate_auxiliary_format_counts_only(t) ==
    IF t = <<>> \/ t[1] = <<>>
    THEN [valid |-> TRUE, errors |-> <<>>]
    ELSE LET text_str == strip(t[1])
             open_brackets == Count(text_str, LeftBracket)
             close_brackets == Count(text_str, RightBracket)
             errors ==
                 (IF open_brackets > 0 /\ close_brackets = 0
                  THEN <<[error |-> "missing right bracket", args |-> <<>>]>>
                  ELSE <<>>)
                 \o (IF close_brackets > 0 /\ open_brackets = 0
                     THEN <<[error |-> "missing left bracket", args |-> <<>>]>>
                     ELSE <<>>)
                 \o (IF open_brackets # close_brackets
                     THEN <<[error |-> "brackets do not match",
                             args |-> <<open_brackets, close_brackets>>]>>
                     ELSE <<>>)
         IN  [valid |-> Len(errors) = 0, errors |-> errors]

\* validate_auxiliary_format(text); an error message is the record of what
\* it is formatted from
validate_auxiliary_format(t) ==
    IF t = <<>> \/ t[1] = <<>>
    THEN [valid |-> TRUE, errors |-> <<>>]
    ELSE LET text_str == strip(t[1])
             open_brackets == Count(text_str, LeftBracket)
             close_brackets == Count(text_str, RightBracket)
             found == parse_auxiliary_manual(text_str)
             errors ==
                 (IF open_brackets > 0 /\ close_brackets = 0
                  THEN <<[error |-> "missing right bracket", args |-> <<>>]>>
                  ELSE <<>>)
                 \o (IF close_brackets > 0 /\ open_brackets = 0
                     THEN <<[error |-> "missing left bracket", args |-> <<>>]>>
                     ELSE <<>>)
                 \o (IF open_brackets # close_brackets
                     THEN <<[error |-> "brackets do not match",
                             args |-> <<open_brackets, close_brackets>>]>>
                     ELSE <<>>)
                 \o (IF Len(found) < open_brackets
                     THEN <<[error |-> "format parsing failed",
                             args |-> <<Len(found), open_brackets>>]>>
                     ELSE <<>>)
         IN  [valid |-> Len(errors) = 0, errors |-> errors]

\* ------------------------------------------------------------- parser inputs
\* the characters of a free text
RawAlphabet == {LeftBracket, RightBracket, FullColon, Colon, Space, "x"}

\* raw types: an alias of the table, a type no alias matches, a type that
\* only contains aliases
ExternalFlowAlias == <<"u6258", "u5916", "u6D41", "u6C34", "u53F7">>

PerformanceDeptHlAlias == <<"u7EE9", "u6548", "u90E8", "u95E8", "h", "l">>

SampleTypes == {ExternalFlowAlias,
                <<"A", " ", "b">>,
                <<"u7EE9", "u6548", "u90E8", "u95E8", "H", "L">>}

\* values: plain, padded with spaces, with a nested bracket pair, starting
\* with colons
NestedValue == <<"x", LeftBracket, "y", RightBracket, "z">>

PaddedValue == <<Space, "x", Space>>

SampleValues == {<<"x">>, PaddedValue, NestedValue, <<FullColon, Colon, "x">>}

\* a piece of a composed text: a well-formed tag, or text that is not one
TagSegment(type, value) ==
    [kind |-> "tag", type |-> type, value |-> value,
     chars |-> <<LeftBracket>> \o type \o <<FullColon>> \o value \o <<RightBracket>>]

OtherSegment(kind, chars) == [kind |-> kind, type |-> <<>>, value |-> <<>>, chars |-> chars]

Segments ==
    {TagSegment(ty, v) : ty \in SampleTypes, v \in SampleValues}
    \cup {OtherSegment("no_colon", <<LeftBracket, "c", RightBracket>>),
          OtherSegment("unclosed", <<LeftBracket, "c", FullColon, "d">>),
          OtherSegment("plain", <<"x">>)}

RECURSIVE Concat(_)
Concat(segs) == IF segs = <<>> THEN <<>> ELSE Head(segs).chars \o Concat(Tail(segs))

\* ------------------------------------------------------------- parser calls
\* a parser constructed with some max_value_length, and a text for it: None,
\* a free text, a text composed of segments, or one tag of any alias
InitParser ==
    /\ TrackerIdle
    /\ \/ text = <<>> /\ segments = <<>>
       \/ \E n \in 0..MaxText : \E t \in [1..n -> RawAlphabet] :
              segments = <<OtherSegment("raw", t)>> /\ text = <<t>>
       \/ \E n \in 1..MaxTags : \E s \in [1..n -> Segments] :
              segments = s /\ text = <<Concat(s)>>
       \/ \E j \in DOMAIN type_mapping : \E v \in SampleValues :
              /\ segments = <<TagSegment(type_mapping[j].key, v)>>
              /\ text = <<Concat(segments)>>
    /\ max_value_length \in (0..MaxValueLength) \cup {DefaultMaxValueLength}
    /\ items = <<>>
    /\ format_result = <<>>
    /\ legacy_items = <<>>
    /\ scan = ScanIdle

CallParseAuxiliaryInfo ==
    /\ items = <<>>
    /\ items' = <<parse_auxiliary_info(text)>>
    /\ UNCHANGED <<text, segments, max_value_length, format_result, legacy_items, scan>>
    /\ UNCHANGED tracker_vars

CallValidateAuxiliaryFormat ==
    /\ format_result = <<>>
    /\ format_result' = <<validate_auxiliary_format(text)>>
    /\ UNCHANGED <<text, segments, max_value_length, items, legacy_items, scan>>
    /\ UNCHANGED tracker_vars

NextParser == CallParseAuxiliaryInfo \/ CallValidateAuxiliaryFormat

SpecParser == InitParser /\ [][NextParser]_vars

\* ------------------------------------------------------------- the legacy parser
\* AuxiliaryParser of data_conversion/auxiliary_parser.py, which finds the
\* tags with a regular expression

\* self.type_mapping of the legacy parser: the first entries of the table of
\* the new one, in the same order
legacy_type_mapping == SubSeq(type_mapping, 1, 19)

\* self.reverse_mapping of the legacy parser, a dict comprehension: the last
\* key of the table that maps to the value
legacy_reverse_mapping_get(standardized_type, default) ==
    LET hits == {j \in DOMAIN legacy_type_mapping :
                    legacy_type_mapping[j].value = standardized_type}
    IN  IF hits = {} THEN default
        ELSE legacy_type_mapping[CHOOSE j \in hits : \A h \in hits : h <= j].key

\* _standardize_type of the legacy parser
legacy_standardize_type(raw_type) ==
    LET exact == {j \in DOMAIN legacy_type_mapping : legacy_type_mapping[j].key = raw_type}
        fuzzy == {j \in DOMAIN legacy_type_mapping :
                     \/ IsSubstring(legacy_type_mapping[j].key, raw_type)
                     \/ IsSubstring(raw_type, legacy_type_mapping[j].key)}
    IN  IF exact # {} THEN legacy_type_mapping[First(exact)].value
        ELSE IF fuzzy # {} THEN legacy_type_mapping[First(fuzzy)].value
        ELSE fallback_type(raw_type)

\* a match of the pattern at position p: <<>> when there is none, else the
\* two groups and the position after the match.  Each of the two runs is
\* followed by a character it cannot contain, so a shorter run never helps
\* and the greedy one is the only candidate.
pattern_match(s, p) ==
    IF p < Len(s) /\ At(s, p) = LeftBracket
    THEN LET colon == run_end(s, p + 1, FullColon)
         IN  IF colon > p + 1 /\ colon < Len(s)
             THEN LET close == run_end(s, colon + 1, RightBracket)
                  IN  IF close > colon + 1 /\ close < Len(s)
                      THEN <<[type |-> Slice(s, p + 1, colon),
                              value |-> Slice(s, colon + 1, close),
                              end |-> close + 1]>>
                      ELSE <<>>
             ELSE <<>>
    ELSE <<>>

\* re.findall(pattern, text_str): the matches from left to right, the search
\* going on after each match
RECURSIVE findall(_, _, _)
findall(s, p, matches) ==
    IF p >= Len(s) THEN matches
    ELSE IF pattern_match(s, p) # <<>>
    THEN findall(s, pattern_match(s, p)[1].end, Append(matches, pattern_match(s, p)[1]))
    ELSE findall(s, p + 1, matches)

\* an item that keeps the two groups as they were matched
legacy_item_unstripped(match) ==
    [raw_type |-> match.type,
     item_type |-> legacy_standardize_type(match.type),
     item_value |-> match.value,
     display_type |-> legacy_reverse_mapping_get(legacy_standardize_type(match.type),
                                                 match.type)]

\* the body of the loop over the matches
legacy_item(match) ==
    LET raw_type == strip(match.type)
        raw_value == strip(match.value)
        standardized_type == legacy_standardize_type(raw_type)
    IN  [raw_type |-> raw_type,
         item_type |-> standardized_type,
         item_value |-> raw_value,
         display_type |-> legacy_reverse_mapping_get(standardized_type, raw_type)]

\* parse_auxiliary_info of the legacy parser
legacy_parse_auxiliary_info(t) ==
    IF t = <<>> \/ t[1] = <<>> \/ strip(t[1]) = <<>>
    THEN <<>>
    ELSE LET matches == findall(strip(t[1]), 0, <<>>)
         IN  [j \in DOMAIN matches |-> legacy_item(matches[j])]

\* the same text is handed to the two parsers
CallLegacyParseAuxiliaryInfo ==
    /\ legacy_items = <<>>
    /\ legacy_items' = <<legacy_parse_auxiliary_info(text)>>
    /\ UNCHANGED <<text, segments, max_value_length, items, format_result, scan>>
    /\ UNCHANGED tracker_vars

NextCompat == CallParseAuxiliaryInfo \/ CallLegacyParseAuxiliaryInfo

SpecCompat == InitParser /\ [][NextCompat]_vars

\* ------------------------------------------------------------- the scan, step by step
\* parse_auxiliary_info run one loop iteration at a time: scan.pc is the
\* loop the call is in, scan.s the stripped text, scan.found the local items

\* the segments of the texts that are scanned step by step: a tag with a
\* padded value, a tag with a nested bracket pair, and the broken tags
ScanSegments ==
    {sg \in Segments :
        \/ sg.kind \in {"no_colon", "unclosed"}
        \/ sg.type = ExternalFlowAlias /\ sg.value = NestedValue
        \/ sg.type = <<"A", " ", "b">> /\ sg.value = PaddedValue}

\* a parser with the default limit and a text for it: None, a free text or
\* a text composed of segments
InitScan ==
    /\ TrackerIdle
    /\ \/ text = <<>> /\ segments = <<>>
       \/ \E n \in 0..MaxText : \E t \in [1..n -> RawAlphabet] :
              segments = <<OtherSegment("raw", t)>> /\ text = <<t>>
       \/ \E n \in 1..MaxTags : \E sg \in [1..n -> ScanSegments] :
              segments = sg /\ text = <<Concat(sg)>>
    /\ max_value_length = DefaultMaxValueLength
    /\ items = <<>>
    /\ format_result = <<>>
    /\ legacy_items = <<>>
    /\ scan = ScanIdle

\* parse_auxiliary_info up to the first test of the outer loop
StartScan ==
    /\ scan.pc = "idle"
    /\ IF text = <<>> \/ text[1] = <<>> \/ strip(text[1]) = <<>>
       THEN /\ scan' = [scan EXCEPT !.pc = "done"]
            /\ items' = << <<>> >>
       ELSE /\ scan' = [scan EXCEPT !.pc = "outer", !.s = strip(text[1]), !.i = 0]
            /\ UNCHANGED items
    /\ UNCHANGED <<text, segments, max_value_length, format_result, legacy_items>>
    /\ UNCHANGED tracker_vars

\* one test of the outer while loop that succeeds, up to the inner loop or
\* to the end of the else branch
OuterIter ==
    /\ scan.pc = "outer"
    /\ scan.i < Len(scan.s)
    /\ IF At(scan.s, scan.i) = LeftBracket
       THEN scan' = [scan EXCEPT !.start = scan.i, !.i = scan.i + 1,
                                 !.colon_pos = -1, !.pc = "colon"]
       ELSE scan' = [scan EXCEPT !.i = scan.i + 1]
    /\ UNCHANGED <<text, segments, max_value_length, items, format_result, legacy_items>>
    /\ UNCHANGED tracker_vars

\* the outer loop ends: the items are returned
OuterExit ==
    /\ scan.pc = "outer"
    /\ scan.i >= Len(scan.s)
    /\ scan' = [scan EXCEPT !.pc = "done"]
    /\ items' = <<scan.found>>
    /\ UNCHANGED <<text, segments, max_value_length, format_result, legacy_items>>
    /\ UNCHANGED tracker_vars

\* an iteration of the colon loop that leaves the index where it is when
\* the character is not the colon
ColonIterNoAdvance ==
    /\ scan.pc = "colon"
    /\ scan.i < Len(scan.s) /\ scan.colon_pos = -1
    /\ IF At(scan.s, scan.i) = FullColon
       THEN scan' = [scan EXCEPT !.colon_pos = scan.i, !.i = scan.i + 1]
       ELSE scan' = [scan EXCEPT !.i = scan.i]
    /\ UNCHANGED <<text, segments, max_value_length, items, format_result, legacy_items>>
    /\ UNCHANGED tracker_vars

\* one iteration of the loop that looks for the colon
ColonIter ==
    /\ scan.pc = "colon"
    /\ scan.i < Len(scan.s) /\ scan.colon_pos = -1
    /\ IF At(scan.s, scan.i) = FullColon
       THEN scan' = [scan EXCEPT !.colon_pos = scan.i, !.i = scan.i + 1]
       ELSE scan' = [scan EXCEPT !.i = scan.i + 1]
    /\ UNCHANGED <<text, segments, max_value_length, items, format_result, legacy_items>>
    /\ UNCHANGED tracker_vars

\* the colon loop ends: without a colon the outer loop is left and the
\* items are returned, with one the type is cut out
ColonExit ==
    /\ scan.pc = "colon"
    /\ ~(scan.i < Len(scan.s) /\ scan.colon_pos = -1)
    /\ IF scan.colon_pos = -1
       THEN /\ scan' = [scan EXCEPT !.pc = "done"]
            /\ items' = <<scan.found>>
       ELSE /\ scan' = [scan EXCEPT
                           !.item_type = strip(Slice(scan.s, scan.start + 1, scan.colon_pos)),
                           !.bracket_count = 1,
                           !.pc = "bracket"]
            /\ UNCHANGED items
    /\ UNCHANGED <<text, segments, max_value_length, format_result, legacy_items>>
    /\ UNCHANGED tracker_vars

\* one iteration of the loop that looks for the matching closing bracket
BracketIter ==
    /\ scan.pc = "bracket"
    /\ scan.i < Len(scan.s) /\ scan.bracket_count > 0
    /\ scan' = [scan EXCEPT
                   !.bracket_count =
                       IF At(scan.s, scan.i) = LeftBracket THEN scan.bracket_count + 1
                       ELSE IF At(scan.s, scan.i) = RightBracket THEN scan.bracket_count - 1
                       ELSE scan.bracket_count,
                   !.i = scan.i + 1]
    /\ UNCHANGED <<text, segments, max_value_length, items, format_result, legacy_items>>
    /\ UNCHANGED tracker_vars

\* the bracket loop ends: with the bracket closed the item is appended and
\* the outer loop goes on, else the outer loop is left and the items returned
BracketExit ==
    /\ scan.pc = "bracket"
    /\ ~(scan.i < Len(scan.s) /\ scan.bracket_count > 0)
    /\ IF scan.bracket_count = 0
       THEN /\ scan' = [scan EXCEPT
                           !.found = Append(scan.found,
                               item_data(scan.item_type,
                                         strip(Slice(scan.s, scan.colon_pos + 1, scan.i - 1)))),
                           !.pc = "outer"]
            /\ UNCHANGED items
       ELSE /\ scan' = [scan EXCEPT !.pc = "done"]
            /\ items' = <<scan.found>>
    /\ UNCHANGED <<text, segments, max_value_length, format_result, legacy_items>>
    /\ UNCHANGED tracker_vars

NextScan ==
    \/ StartScan
    \/ OuterIter \/ OuterExit
    \/ ColonIter \/ ColonExit
    \/ BracketIter \/ BracketExit

\* a call that has started runs on: nothing else is scheduled
SpecScan == InitScan /\ [][NextScan]_vars /\ WF_vars(NextScan)

\* ------------------------------------------------------------- parser properties
\* parse_auxiliary_info has returned
Parsed == items # <<>>

\* validate_auxiliary_format has returned
Validated == format_result # <<>>

\* the text is a concatenation of well-formed tags
WellFormedText ==
    /\ segments # <<>>
    /\ \A j \in DOMAIN segments : segments[j].kind = "tag"

\* s without the spaces at its two ends
Trimmed(s) ==
    LET solid == {p \in DOMAIN s : s[p] # Space}
    IN  IF solid = {} THEN <<>>
        ELSE SubSeq(s, CHOOSE a \in solid : \A p \in solid : a <= p,
                       CHOOSE b \in solid : \A p \in solid : p <= b)

IsPrefix(a, b) == Len(a) <= Len(b) /\ SubSeq(b, 1, Len(a)) = a

Delimiters == {"u3010", "u3011", "uFF1A", ":"}

\* C14 as it is written: for a text that is a concatenation of k well-formed
\* tags, parse_auxiliary_info returns k tags in the order of the text and the
\* value of each is the whole text between its first full-width colon and
\* the closing bracket that matches its opening bracket.
C14_ValueIsWholeText ==
    (Parsed /\ WellFormedText) =>
        /\ Len(items[1]) = Len(segments)
        /\ \A j \in DOMAIN segments :
               /\ items[1][j].raw_type = segments[j].type
               /\ items[1][j].item_value = segments[j].value

\* C14: for a text that is a concatenation of k well-formed tags, whose
\* values may contain balanced bracket pairs, parse_auxiliary_info returns
\* exactly k tags in the order of the text; the value of each is the text
\* between its first full-width colon and the matching closing bracket with
\* the spaces at its two ends removed when that is at most max_value_length
\* long, and a prefix of it of at most max_value_length characters otherwise.
C14_NestedBracketParsing ==
    (Parsed /\ WellFormedText) =>
        /\ Len(items[1]) = Len(segments)
        /\ \A j \in DOMAIN segments :
               /\ items[1][j].raw_type = segments[j].type
               /\ LET v == Trimmed(segments[j].value)
                  IN  IF Len(v) <= max_value_length
                      THEN items[1][j].item_value = v
                      ELSE /\ IsPrefix(items[1][j].item_value, v)
                           /\ Len(items[1][j].item_value) <= max_value_length

\* two tags were parsed: a value padded with spaces, then a value with a
\* nested bracket pair that is returned whole
C14_Witness ==
    /\ Parsed /\ WellFormedText
    /\ Len(segments) = 2
    /\ segments[1].value = PaddedValue
    /\ segments[2].value = NestedValue
    /\ Len(items[1]) = 2
    /\ items[1][1].item_value = <<"x">>
    /\ items[1][2].item_value = NestedValue

\* the first segment that is a broken tag: one with no colon or one that
\* is not closed (0 when there is none)
FirstBroken ==
    LET broken == {j \in DOMAIN segments : segments[j].kind \in {"no_colon", "unclosed"}}
    IN  IF broken = {} THEN 0 ELSE CHOOSE j \in broken : \A b \in broken : j <= b

\* C15: parse_auxiliary_info returns (it does not raise) the empty list for
\* a null or empty text and for a text with no opening bracket, and, when
\* the first broken tag of a text (one with no colon, or with no matching
\* closing bracket) comes after j well-formed tags, exactly those j tags:
\* none when the first tag is the broken one.
C15_MalformedRecovered ==
    Parsed =>
        /\ (text = <<>> \/ text[1] = <<>>) => items[1] = <<>>
        /\ (text # <<>> /\ Count(text[1], LeftBracket) = 0) => items[1] = <<>>
        /\ (/\ FirstBroken > 0
            /\ \A j \in 1..(FirstBroken - 1) : segments[j].kind = "tag") =>
               /\ Len(items[1]) = FirstBroken - 1
               /\ \A j \in 1..(FirstBroken - 1) : items[1][j].raw_type = segments[j].type

\* the tag was cut: it carries the warning
Truncated(item) == item.value_warning # <<>>

EndsInDelimiter(v) == v # <<>> /\ v[Len(v)] \in Delimiters

\* C16 as it is written: whenever the value of a parsed tag was longer than
\* max_value_length, the last character of the value that is returned is
\* none of the four delimiter characters.
C16_NeverEndsInDelimiter ==
    Parsed =>
        \A j \in DOMAIN items[1] :
            Truncated(items[1][j]) => ~EndsInDelimiter(items[1][j].item_value)

\* C16: whenever the value of a parsed tag was longer than max_value_length,
\* the last character of the value that is returned is none of the four
\* delimiter characters, unless the first max_value_length characters of
\* the value are all delimiters: then exactly those characters are
\* returned.
C16_TruncationNeverSplitsDelimiter ==
    Parsed =>
        \A j \in DOMAIN items[1] :
            (Truncated(items[1][j]) /\ EndsInDelimiter(items[1][j].item_value)) =>
                /\ Len(items[1][j].item_value) = max_value_length
                /\ \A p \in DOMAIN items[1][j].item_value :
                       items[1][j].item_value[p] \in Delimiters

\* a value was cut at a delimiter and walked back: what is returned is
\* shorter than max_value_length and ends in another character
C16_Witness ==
    /\ Parsed
    /\ \E j \in DOMAIN items[1] :
           /\ Truncated(items[1][j])
           /\ items[1][j].item_value # <<>>
           /\ Len(items[1][j].item_value) < max_value_length
           /\ ~EndsInDelimiter(items[1][j].item_value)

\* C17: in a text of well-formed tags every tag is kept; a tag carries
\* value_warning exactly when its value (the text of the value without the
\* spaces at its ends) is longer than max_value_length; a value that is not
\* longer is returned unchanged and a longer one as a prefix of it of at
\* most max_value_length characters.
C17_ValueLengthPolicy ==
    (Parsed /\ WellFormedText) =>
        /\ Len(items[1]) = Len(segments)
        /\ \A j \in DOMAIN segments :
               LET v == Trimmed(segments[j].value)
                   item == items[1][j]
               IN  /\ Truncated(item) <=> Len(v) > max_value_length
                   /\ Len(v) <= max_value_length => item.item_value = v
                   /\ Len(v) > max_value_length =>
                          /\ IsPrefix(item.item_value, v)
                          /\ Len(item.item_value) <= max_value_length

\* two tags were parsed, the first with a value of exactly max_value_length
\* characters and kept whole, the second with a longer value and cut
C17_Witness ==
    /\ Parsed /\ WellFormedText
    /\ Len(segments) = 2 /\ Len(items[1]) = 2
    /\ Len(Trimmed(segments[1].value)) = max_value_length
    /\ ~Truncated(items[1][1])
    /\ Len(Trimmed(segments[2].value)) > max_value_length
    /\ Truncated(items[1][2])
    /\ Len(items[1][2].item_value) <= max_value_length

\* no alias equals the raw type, is inside it or has it inside
NoAliasMatches(raw_type) ==
    \A j \in DOMAIN type_mapping :
        /\ type_mapping[j].key # raw_type
        /\ ~IsSubstring(type_mapping[j].key, raw_type)
        /\ ~IsSubstring(raw_type, type_mapping[j].key)

Lowered(raw_type) == [p \in DOMAIN raw_type |-> lower_char(raw_type[p])]

AliasesStandardizeToTheirId ==
    \A a \in DOMAIN type_mapping :
        standardize_type(type_mapping[a].key) = type_mapping[a].value

\* C19: a raw type that equals an alias of the table gets the canonical id
\* of that alias, whatever other aliases are inside it or contain it; this
\* holds of every alias of the table and of every tag that is returned.
C19_ExactMatchPrecedence ==
    /\ AliasesStandardizeToTheirId
    /\ Parsed =>
           \A j \in DOMAIN items[1] : \A a \in DOMAIN type_mapping :
               items[1][j].raw_type = type_mapping[a].key =>
                   items[1][j].item_type = type_mapping[a].value

\* a tag of raw type u7EE9 u6548 u90E8 u95E8 h l, which has the alias of
\* "department" inside it, was given performance_dept_hl
C19_Witness ==
    /\ Parsed
    /\ \E j \in DOMAIN items[1] : \E a, b \in DOMAIN type_mapping :
           /\ items[1][j].raw_type = PerformanceDeptHlAlias
           /\ type_mapping[a].key = PerformanceDeptHlAlias
           /\ items[1][j].item_type = type_mapping[a].value
           /\ b < a
           /\ IsSubstring(type_mapping[b].key, PerformanceDeptHlAlias)
           /\ type_mapping[b].value # type_mapping[a].value

\* C20: for a text that is a concatenation of well-formed tags, tags with
\* balanced bracket pairs inside their value included,
\* validate_auxiliary_format returns valid and no error.
C20_ValidateAcceptsWellFormed ==
    (Validated /\ WellFormedText) =>
        /\ format_result[1].valid
        /\ format_result[1].errors = <<>>

\* ------------------------------------------------------------- the two parsers
\* both parsers have returned
BothParsed == items # <<>> /\ legacy_items # <<>>

Brackets == {"u3010", "u3011"}

Has(s, chars) == \E p \in DOMAIN s : s[p] \in chars

\* the text is a concatenation of flat tags: type and value not empty, no
\* bracket in either, no full-width colon in the type, and a value (the
\* spaces at its ends apart) of at most max_value_length characters
FlatText ==
    /\ WellFormedText
    /\ \A j \in DOMAIN segments :
           /\ segments[j].type # <<>> /\ segments[j].value # <<>>
           /\ ~Has(segments[j].type, Brackets) /\ ~Has(segments[j].value, Brackets)
           /\ ~Has(segments[j].type, {"uFF1A"})
           /\ Len(Trimmed(segments[j].value)) <= max_value_length

Pairs(its) == [j \in DOMAIN its |-> <<its[j].raw_type, its[j].item_value>>]

\* C21: for a text that is a concatenation of flat tags the bracket-counting
\* scanner returns the same sequence of (raw type, value) pairs as the
\* regular expression of the legacy parser.
C21_ScannerAgreesWithLegacy ==
    (BothParsed /\ FlatText) => Pairs(items[1]) = Pairs(legacy_items[1])

\* two flat tags, one with a padded value and one whose value holds colons,
\* were parsed by both parsers into two items
C21_Witness ==
    /\ BothParsed /\ FlatText
    /\ Len(segments) = 2
    /\ segments[1].value = PaddedValue
    /\ Has(segments[2].value, {"uFF1A"})
    /\ Len(items[1]) = 2
    /\ Len(legacy_items[1]) = 2

\* ------------------------------------------------------------- the cut
\* the positions of v[1..n] that hold a character that is no delimiter
SolidBefore(v, n) == {p \in 1..n : v[p] \notin Delimiters}

\* C28: when the value of a tag is longer than max_value_length and the
\* character at position max_value_length is a delimiter, the value that is
\* returned is the longest prefix of the first max_value_length characters
\* that ends in a character that is no delimiter; when those characters are
\* all delimiters it is exactly the first max_value_length characters.
C28_TruncationBoundaryRule ==
    (Parsed /\ WellFormedText) =>
        /\ Len(items[1]) = Len(segments)
        /\ \A j \in DOMAIN segments :
               LET v == Trimmed(segments[j].value)
                   solid == SolidBefore(v, max_value_length)
               IN  (/\ Len(v) > max_value_length
                    /\ max_value_length >= 1
                    /\ v[max_value_length] \in Delimiters) =>
                       items[1][j].item_value =
                           IF solid = {}
                           THEN SubSeq(v, 1, max_value_length)
                           ELSE SubSeq(v, 1, CHOOSE p \in solid : \A q \in solid : q <= p)

\* two values were cut at a delimiter: the first was walked back to its
\* last other character, the second has only delimiters before the cut and
\* is returned as it was cut
C28_Witness ==
    /\ Parsed /\ WellFormedText
    /\ Len(segments) = 2 /\ Len(items[1]) = 2
    /\ max_value_length = 2
    /\ segments[1].value = NestedValue
    /\ items[1][1].item_value = <<"x">>
    /\ Len(segments[2].value) > max_value_length
    /\ SolidBefore(segments[2].value, max_value_length) = {}
    /\ items[1][2].item_value = SubSeq(segments[2].value, 1, max_value_length)

ScanMatchesParse == scan.pc = "done" => items = <<parse_auxiliary_info(text)>>

\* C29: the scan of _parse_auxiliary_manual terminates for every text: the
\* index goes up in every iteration of the outer loop and of the two inner
\* loops and never passes the end of the text, so the call returns; and the
\* number of tags found never exceeds the number of opening brackets of the
\* text.
C29_ScanTerminates ==
    /\ [][(OuterIter \/ ColonIter \/ BracketIter) => scan'.i > scan.i]_vars
    /\ [][scan'.i >= scan.i]_vars
    /\ [](scan.i <= Len(scan.s))
    /\ [](Len(scan.found) <= Count(scan.s, "u3010"))
    /\ <>(scan.pc = "done")

\* a scan went through the three loops twice, reached the end of the text
\* and returned two tags
C29_Witness ==
    /\ scan.pc = "done"
    /\ scan.i = Len(scan.s)
    /\ Len(scan.found) = 2
    /\ items = <<scan.found>>

\* ------------------------------------------------------------- the pool
\* the value of remaining_debits after each credit leg of the voucher in
\* raw_data, when _process_multi_credit_multi_debit allocates it
Pools ==
    credit_loop(credit_records_of(raw_data), 1, debit_records_of(raw_data), <<>>, <<>>).pools

\* the voucher in raw_data went through the many-credit/many-debit allocation
PoolRun == Len(outs) >= 1 /\ outs[1].ok /\ NumDebit >= 2 /\ NumCredit >= 2

\* C22: in a many-credit/many-debit voucher with equal totals, the pool
\* handed on after the k-th credit leg totals the voucher's debit total
\* minus the amounts of the first k credit legs.
C22_PoolKeepsUnconsumed ==
    (PoolRun /\ InputDebitTotal = InputCreditTotal)
    => \A k \in DOMAIN Pools :
           total_debit(Pools[k])
               = InputDebitTotal - SumSeq(SubSeq(InputCreditAmounts, 1, k))

\* C23: every payment record of a voucher with equal totals, in any
\* topology, has at least one debit fragment, and its fragment amounts sum
\* exactly to the credit amount written in it.
C23_RecordsNonEmptyAndBalanced ==
    \A c \in DOMAIN outs :
        (NumDebit >= 1 /\ NumCredit >= 1 /\ InputDebitTotal = InputCreditTotal)
        => /\ outs[c].ok
           /\ \A r \in DOMAIN outs[c].records :
                  /\ Len(outs[c].records[r].debits) >= 1
                  /\ SumSeq(EntryAmounts(outs[c].records[r].debits))
                         = outs[c].records[r].credit.amount

\* C24: in every run of the many-credit/many-debit allocation the pool holds
\* at most one leg after the first credit leg, and it never grows from one
\* credit leg to the next.
C24_PoolSizeBound ==
    PoolRun
    => /\ Len(Pools[1]) <= 1
       /\ \A k \in 2..Len(Pools) : Len(Pools[k]) <= Len(Pools[k - 1])

\* a many-credit/many-debit run whose first credit leg split the first of
\* several debit legs: the pool then holds the remainder of that leg alone,
\* and the next credit leg empties it
C24_Witness ==
    /\ PoolRun
    /\ Len(outs[1].records) = 2
    /\ Len(outs[1].records[1].debits) = 1
    /\ Len(Pools[1]) = 1
    /\ field(Pools[1][1].debit_amount) < InputDebitAmounts[1]
    /\ Pools[1][1].entry = InputDebitLegs[1].entry
    /\ Len(Pools[2]) = 0

\* ------------------------------------------------------------- provenance
\* the tag of the given name and value, as it stands in an auxiliary text
TagText(name, value) ==
    <<LeftBracket>> \o name \o <<FullColon>> \o value \o <<RightBracket>>

\* C25: every debit fragment of every record carries the account name and
\* the summary of the debit leg it was derived from unchanged, and its
\* department, counterparty and person are what the patterns extract from
\* that leg's auxiliary text, each value, when there is one, standing in a
\* tag of that text; only the amount may differ from the leg's.
C25_FragmentProvenance ==
    \A c \in DOMAIN outs :
        \A r \in DOMAIN outs[c].records :
            \A j \in DOMAIN outs[c].records[r].debits :
                LET f == outs[c].records[r].debits[j]
                    leg == InputDebitLegs[LegPosition(f.leg)]
                IN  /\ f.account = leg.account
                    /\ f.summary = leg.summary
                    /\ f.department = extract_department(leg.aux)
                    /\ f.customer = extract_customer(leg.aux)
                    /\ f.person = extract_person(leg.aux)
                    /\ f.department # <<>> =>
                           \/ IsSubstring(TagText(DepartmentName, f.department), leg.aux)
                           \/ IsSubstring(TagText(PerformanceDepartmentName, f.department),
                                          leg.aux)
                    /\ f.customer # <<>> =>
                           IsSubstring(TagText(CustomerName, f.customer), leg.aux)
                    /\ f.person # <<>> =>
                           IsSubstring(TagText(PersonName, f.person), leg.aux)

\* a many-credit/many-debit voucher whose first debit leg, tagged with a
\* department and a counterparty, was split over two records, and whose
\* first record also holds nothing of the second leg, tagged with a person
C25_Witness ==
    /\ PoolRun
    /\ Len(outs[1].records) = 2
    /\ \A r \in 1..2 :
           /\ Len(outs[1].records[r].debits) = 1
           /\ outs[1].records[r].debits[1].leg = 1
           /\ outs[1].records[r].debits[1].amount < InputDebitAmounts[1]
           /\ outs[1].records[r].debits[1].account = <<"A", "1">>
           /\ outs[1].records[r].debits[1].department = <<"x">>
           /\ outs[1].records[r].debits[1].customer = <<"y">>
           /\ outs[1].records[r].debits[1].person = <<>>
    /\ InputDebitLegs[2].entry = 2
    /\ extract_person(InputDebitLegs[2].aux) = <<"n">>
    /\ extract_department(InputDebitLegs[2].aux) = <<"d">>

FirstRow(key) == CHOOSE i \in DOMAIN raw_data :
                     /\ raw_data[i].key = key
                     /\ \A j \in 1..(i - 1) : raw_data[j].key # key

\* the position in raw_data of the row with entry number e of the voucher
RowOf(key, e) == CHOOSE i \in DOMAIN raw_data : raw_data[i].key = key /\ raw_data[i].entry = e

\* record a stands before record b in the order of the input: its voucher
\* appears first, or they are of one voucher and its credit leg comes first
InInputOrder(a, b) ==
    \/ FirstRow(a.voucher) < FirstRow(b.voucher)
    \/ /\ a.voucher = b.voucher
       /\ RowOf(a.voucher, a.credit.leg) < RowOf(b.voucher, b.credit.leg)

\* C27: in a batch run the records collected so far, and the records
\* published at the end, stand grouped by voucher, the vouchers in the order
\* in which their keys first appear in the input rows, contiguous or not, and
\* the records of one voucher in the input order of their credit legs.
C27_DeterministicOutputOrder ==
    /\ \A a, b \in DOMAIN all_payment_records :
           a < b => InInputOrder(all_payment_records[a], all_payment_records[b])
    /\ pc = "done" /\ ret # <<FALSE>> => bank_payments = all_payment_records
    /\ \A a \in DOMAIN all_payment_records :
           is_credit(raw_data[RowOf(all_payment_records[a].voucher,
                                    all_payment_records[a].credit.leg)])

\* a batch whose first row is of the voucher with the larger key and whose
\* two vouchers have their rows interleaved has returned a record for each
\* voucher, the one of the voucher met first standing first although its
\* credit leg comes last
C27_Witness ==
    /\ pc = "done"
    /\ Len(bank_payments) = 2
    /\ raw_data[1].key > raw_data[2].key
    /\ bank_payments[1].voucher = raw_data[1].key
    /\ bank_payments[2].voucher = raw_data[2].key
    /\ bank_payments[1].credit.leg > bank_payments[2].credit.leg
    /\ raw_data[3].key = raw_data[2].key

====
